---- MODULE Spec2Model ----
(***************************************************************************)
(* A model of src/src/tsne/tsne.cc (t-SNE): perplexity_and_prob,           *)
(* vectors_to_distances, binary_search_perplexity,                         *)
(* distances_to_probabilities, tsne and the reference optimiser loop kept  *)
(* in the file's "#if 0" block.                                            *)
(*                                                                         *)
(* Numbers.  beta, betamin and betamax are doubles.  Every value the       *)
(* search gives them is a dyadic rational that a double holds exactly      *)
(* (at most 50 doublings, halvings or midpoints from 1.0), so they are     *)
(* modelled exactly: a finite number is the set of the exponents of its    *)
(* binary expansion, and -INFINITY / INFINITY are separate values.         *)
(*                                                                         *)
(* exp and log are not computable here.  A distance row is therefore one   *)
(* of two kinds.  A row over {"zero", "big"} holds only entries 0.0 and    *)
(* entries so large that exp(D * beta) overflows to +inf for every beta    *)
(* the search can reach; perplexity_and_prob is computed exactly on such   *)
(* rows, by IEEE arithmetic.  A row of "fin" entries stands for any row of  *)
(* moderate values: its log-perplexity is some real number fixed by        *)
(* (D, beta, i), or NaN once a weight overflows; the model lets it be any  *)
(* residual level or NaN, the same one whenever the same arguments are     *)
(* evaluated again.  On rows over {"zero", "big"} the tolerance is the     *)
(* default 1e-5 (tsne.cc:90), so log(c) meets log(T) only when c = T.      *)
(***************************************************************************)
EXTENDS Integers, FiniteSets, Sequences, TLC

\* ------------------------------------------------------------- bounds

\* largest number of points n
MaxN == 3
\* the target perplexities are 1 .. MaxPerp
MaxPerp == 3
\* residual levels of a "fin" row: log_perplexity - log(T) is in -MaxRes .. MaxRes
MaxRes == 2

\* largest number of points when every point has its own calibration task
MaxTasks == 2

\* the points have at most MaxDim coordinates, each in -1 .. MaxCoord
MaxDim == 2
MaxCoord == 3
\* the largest finite float: a result beyond it is an infinity (FLT_MAX,
\* scaled down to the coordinates above)
FltMax == 8
\* an entry of the normalised P is 0 .. MaxP in units of a quarter of the
\* floor 1e-12
MaxP == 3

\* the iteration cap of the search loop (tsne.cc:102)
MaxIter == 50

\* ------------------------------------------------------------ doubles

Fin(S) == [inf |-> 0, bits |-> S]
NegInf == [inf |-> -1, bits |-> {}]
PosInf == [inf |-> 1, bits |-> {}]
One == Fin({0})

isfinite(x) == x.inf = 0

MaxOf(S) == CHOOSE x \in S : \A y \in S : y <= x

RECURSIVE AddBits(_, _)
AddBits(A, B) ==
    IF B = {} THEN A
    ELSE AddBits((A \cup B) \ (A \cap B), {e + 1 : e \in A \cap B})

ShiftBits(S, k) == {e + k : e \in S}

LessBits(A, B) ==
    LET d == (A \cup B) \ (A \cap B)
    IN  d # {} /\ MaxOf(d) \in B

\* x < y on doubles (the finite ones are positive)
Lt(x, y) ==
    \/ x.inf < y.inf
    \/ x.inf = 0 /\ y.inf = 0 /\ LessBits(x.bits, y.bits)

Le(x, y) == x = y \/ Lt(x, y)

\* beta * 2, beta / 2, (a + b) * 0.5
Twice(x) == Fin(ShiftBits(x.bits, 1))
Half(x) == Fin(ShiftBits(x.bits, -1))
Mid(a, b) == Fin(ShiftBits(AddBits(a.bits, b.bits), -1))

\* the double x as a float: 24 significant bits, round to nearest, ties to even
\* (every exponent the search reaches is within a float's range)
ToFloat(x) ==
    IF ~isfinite(x) \/ x.bits = {} THEN x
    ELSE LET m == MaxOf(x.bits)
             keep == {e \in x.bits : e >= m - 23}
             half == (m - 24) \in x.bits
             sticky == \E e \in x.bits : e < m - 24
             up == half /\ (sticky \/ (m - 23) \in x.bits)
         IN  Fin(IF up THEN AddBits(keep, {m - 23}) ELSE keep)

\* ------------------------------------------- rows and their log-perplexity

Idx(n) == 0 .. (n - 1)

ExactRows(n) == [Idx(n) -> {"zero", "big"}]
FinRow(n) == [j \in Idx(n) |-> "fin"]
\* the behaviour of a "fin" row does not depend on its length: the rows of
\* two entries stand for all of them
Rows(n) == ExactRows(n) \cup (IF n = 2 THEN {FinRow(n)} ELSE {})

IsFinRow(D) == \E j \in DOMAIN D : D[j] = "fin"

\* entries of a probability row
PZero == [c |-> "zero", d |-> 0]
PNaN == [c |-> "nan", d |-> 0]
PPos == [c |-> "pos", d |-> 0]
PFrac(k) == [c |-> "frac", d |-> k]

\* log-perplexities
HNaN == [k |-> "nan", v |-> 0]
HLog(c) == [k |-> "log", v |-> c]
HLvl(l) == [k |-> "lvl", v |-> l]

\* the weights exp(D * beta) with P[i] = 0 (tsne.cc:27-28)
Weights(D, i) ==
    [j \in DOMAIN D |->
        IF j = i THEN "0"
        ELSE IF D[j] = "big" THEN "inf"
        ELSE IF D[j] = "zero" THEN "1" ELSE "pos"]

perplexity_and_prob_exact(D, i) ==
    LET w == Weights(D, i)
        anyInf == \E j \in DOMAIN D : w[j] = "inf"
        c == Cardinality({j \in DOMAIN D : w[j] = "1"})
    IN  IF anyInf
        THEN [H |-> HNaN,
              P |-> [j \in DOMAIN D |-> IF w[j] = "inf" THEN PNaN ELSE PZero]]
        ELSE IF c = 0
        THEN [H |-> HNaN, P |-> [j \in DOMAIN D |-> PNaN]]
        ELSE [H |-> HLog(c),
              P |-> [j \in DOMAIN D |-> IF w[j] = "0" THEN PZero ELSE PFrac(c)]]

\* a "fin" row: any residual level, with positive finite weights; or, when
\* beta has grown past 1 and the weights exp(D * beta) overflow (or all
\* underflow), a NaN log-perplexity and a row whose entries are w / inf = 0
\* or inf / inf = NaN (the self-entry either, the others shown as NaN).
\* For beta <= 1 the weights lie between the ones at beta = 1 and 1.
perplexity_and_prob_fin(D, beta, i) ==
    {[H |-> HLvl(l),
      P |-> [j \in DOMAIN D |-> IF j = i THEN PZero ELSE PPos]]
        : l \in (-MaxRes) .. MaxRes}
    \cup
    {[H |-> HNaN,
      P |-> [j \in DOMAIN D |-> IF j = self THEN PZero ELSE PNaN]]
        : self \in (IF ~Lt(One, beta) THEN {}
                    ELSE IF i = -1 THEN DOMAIN D ELSE {i})}

\* the results perplexity_and_prob(D, beta, i) can give
perplexity_and_prob(D, beta, i) ==
    IF IsFinRow(D) THEN perplexity_and_prob_fin(D, beta, i)
    ELSE {perplexity_and_prob_exact(D, i)}

\* log_perplexity > log(T)
Above(H, T) ==
    CASE H.k = "nan" -> FALSE
      [] H.k = "log" -> H.v > T
      [] OTHER -> H.v > 0

\* abs(log_perplexity - log(T)) > tolerance
NotConverged(H, T) ==
    CASE H.k = "nan" -> FALSE
      [] H.k = "log" -> H.v # T
      [] OTHER -> H.v # 0

Abs(x) == IF x < 0 THEN -x ELSE x

\* abs(h1 - log(T)) < abs(h2 - log(T)), for two log-perplexities of one row
\* that are not NaN
ResidualLess(h1, h2, T) ==
    IF h1.k = "log"
    THEN LET hi1 == IF h1.v > T THEN h1.v ELSE T
             lo1 == IF h1.v > T THEN T ELSE h1.v
             hi2 == IF h2.v > T THEN h2.v ELSE T
             lo2 == IF h2.v > T THEN T ELSE h2.v
         IN  hi1 * lo2 < hi2 * lo1
    ELSE Abs(h1.v) < Abs(h2.v)

\* ------------------------------------------------------------ state

\* bs: the frame of binary_search_perplexity
\* vd: the frame of vectors_to_distances
\* dp: the frame of distances_to_probabilities
\* fo: distances_to_probabilities with one calibration task per point
\* ts: the frame of tsne
\* op: the frame of the reference optimiser loop (the "#if 0" block)
VARIABLES bs, vd, dp, fo, ts, op

vars == <<bs, vd, dp, fo, ts, op>>

Idle == [pc |-> "idle"]

\* ------------------------------------------ binary_search_perplexity

\* tsne.cc:92-97: the locals before the first evaluation.  log_perplexity
\* is not initialised there and is not read before line 99 assigns it.
\* best is history: the log-perplexity nearest to log(T) among those of the
\* betas evaluated before the current one (HNaN: none yet).
NewSearch(Di, T, i) ==
    [pc |-> "call", Di |-> Di, required_perplexity |-> T, i |-> i,
     betamin |-> NegInf, betamax |-> PosInf, beta |-> One,
     P |-> <<>>, log_perplexity |-> HNaN, evalI |-> -1,
     iter |-> 0, best |-> HNaN]

\* tsne.cc:99: the first evaluation, with the row's own index
FirstEval(s, r) ==
    [s EXCEPT !.pc = "loop", !.log_perplexity = r.H, !.P = r.P, !.evalI = s.i]

\* tsne.cc:105-116: the new betamin, beta, betamax
RaiseBeta(s) ==
    [betamin |-> s.beta, betamax |-> s.betamax,
     beta |-> IF ~isfinite(s.betamax) THEN Twice(s.beta)
              ELSE Mid(s.beta, s.betamax)]

\* a lowering that halves beta whether or not betamin is finite
LowerBetaHalves(s) ==
    [betamin |-> s.betamin, betamax |-> s.beta, beta |-> Half(s.beta)]

LowerBeta(s) ==
    [betamin |-> s.betamin, betamax |-> s.beta,
     beta |-> IF ~isfinite(s.betamin) THEN Half(s.beta)
              ELSE Mid(s.beta, s.beta)]

SearchUpdate(s) ==
    IF Above(s.log_perplexity, s.required_perplexity)
    THEN RaiseBeta(s) ELSE LowerBeta(s)

\* a loop condition without the tolerance test
LoopGuardNoTolerance(s) == s.iter < MaxIter

\* tsne.cc:102: the loop condition
LoopGuard(s) ==
    s.iter < MaxIter /\ NotConverged(s.log_perplexity, s.required_perplexity)

\* the index argument of the evaluation inside the loop (tsne.cc:118)
LoopEvalIndex(s) == -1

\* the results the evaluation at tsne.cc:118 can give: the function is
\* pure, so the same (beta, i) gives the result it gave before
LoopEvals(s, u) ==
    IF u.beta = s.beta /\ LoopEvalIndex(s) = s.evalI
    THEN {[H |-> s.log_perplexity, P |-> s.P]}
    ELSE perplexity_and_prob(s.Di, u.beta, LoopEvalIndex(s))

BestOf(s) ==
    IF s.best = HNaN \/ ResidualLess(s.log_perplexity, s.best, s.required_perplexity)
    THEN s.log_perplexity ELSE s.best

\* tsne.cc:103-119: one iteration, ending with the evaluation r
Iterate(s, r) ==
    LET u == SearchUpdate(s)
    IN  [s EXCEPT !.betamin = u.betamin, !.betamax = u.betamax,
                  !.beta = u.beta, !.log_perplexity = r.H, !.P = r.P,
                  !.evalI = LoopEvalIndex(s), !.iter = s.iter + 1,
                  !.best = BestOf(s)]

BSCall ==
    /\ bs.pc = "call"
    /\ \E r \in perplexity_and_prob(bs.Di, bs.beta, bs.i) : bs' = FirstEval(bs, r)
    /\ UNCHANGED <<vd, dp, fo, ts, op>>

BSIterate ==
    /\ bs.pc = "loop"
    /\ LoopGuard(bs)
    /\ \E r \in LoopEvals(bs, SearchUpdate(bs)) : bs' = Iterate(bs, r)
    /\ UNCHANGED <<vd, dp, fo, ts, op>>

\* tsne.cc:121
BSReturn ==
    /\ bs.pc = "loop"
    /\ ~LoopGuard(bs)
    /\ bs' = [bs EXCEPT !.pc = "done"]
    /\ UNCHANGED <<vd, dp, fo, ts, op>>

\* the calls, on rows of at least two points: a "fin" row's residual levels
\* are relative to log(T), whatever T is, so one T stands for all
SearchInputs ==
    {<<Di, T, i>> \in (UNION {Rows(n) : n \in 2 .. MaxN}) \X (1 .. MaxPerp) \X Idx(MaxN) :
        /\ i \in DOMAIN Di
        /\ IsFinRow(Di) => T = MaxPerp}

Init ==
    /\ \E c \in SearchInputs : bs = NewSearch(c[1], c[2], c[3])
    /\ vd = Idle /\ dp = Idle /\ fo = Idle /\ ts = Idle /\ op = Idle

Next == BSCall \/ BSIterate \/ BSReturn

Spec == Init /\ [][Next]_vars

\* --------------------------------------- distances_to_probabilities, tsne

\* a matrix: its shape()[0], shape()[1] and its rows
Matrix(r, c, rows) == [shape |-> <<r, c>>, rows |-> rows]

\* the n x n matrices with entries 0 or large
ExactMatrices(n) == {Matrix(n, n, m) : m \in [Idx(n) -> ExactRows(n)]}

\* those that hold the squared distances of n points: symmetric, with a zero
\* diagonal
DistanceMatrices(n) ==
    {M \in ExactMatrices(n) :
        \A a, b \in Idx(n) : M.rows[a][a] = "zero" /\ M.rows[a][b] = M.rows[b][a]}

\* matrices that are not square; no entry of one is read
NonSquare ==
    {Matrix(r, c, [a \in Idx(r) |-> [b \in Idx(c) |-> "zero"]]) :
        <<r, c>> \in {x \in (1 .. MaxN) \X (1 .. MaxN) : x[1] # x[2]}}

InputMatrices == (UNION {DistanceMatrices(n) : n \in 1 .. MaxN}) \cup NonSquare

\* a shape test that lets every matrix through
IsSquareAlways(M) == M.shape[1] = M.shape[1]

\* tsne.cc:131 and tsne.cc:167: the shape test
IsSquare(M) == M.shape[2] = M.shape[1]

\* tsne.cc:130-136, with a square D: P is n x n zeros, beta is n times 1.0
\* calibrated counts the calls of binary_search_perplexity; last is the
\* latest row validated and what became of it (both history)
EnterLoop(f) ==
    LET n == f.D.shape[1]
    IN  [f EXCEPT !.pc = "row", !.n = n, !.i = 0,
                  !.P = [a \in Idx(n) |-> [b \in Idx(n) |-> PZero]],
                  !.beta = [a \in Idx(n) |-> One]]

NewBuild(D, perplexity) ==
    [pc |-> "enter", D |-> D, perplexity |-> perplexity, n |-> 0, i |-> 0,
     P |-> <<>>, beta |-> <<>>, err |-> "", calibrated |-> 0,
     last |-> [row |-> <<>>, i |-> -1, threw |-> FALSE]]

\* tsne.cc:149-152: "size", "diagonal" or "ok".  P_row[n] is one past the
\* row's last entry: the read is out of bounds, and past is what it finds
\* there (TRUE: something other than 0.0)
Validate(P_row, n, i, past) ==
    IF Cardinality(DOMAIN P_row) # n THEN "size"
    ELSE IF past THEN "diagonal"
    ELSE "ok"

ErrorText(v) ==
    IF v = "size" THEN "P_row has the wrong size"
    ELSE "P_row diagonal entry was not zero"

\* a copy that forgets the row offset and writes every row into P[0]
StoreRowAtFirst(f, s, past) ==
    LET v == Validate(s.P, f.n, f.i, past)
        g == [f EXCEPT !.beta[f.i] = ToFloat(s.beta),
                       !.last = [row |-> s.P, i |-> f.i, threw |-> v # "ok"]]
    IN  IF v # "ok" THEN [g EXCEPT !.pc = "thrown", !.err = ErrorText(v)]
        ELSE [g EXCEPT !.pc = "row", !.P[0] = s.P, !.i = f.i + 1]

\* tsne.cc:146-154: beta[i] and P_row are assigned, the row is validated and
\* copied into P[i]
StoreRow(f, s, past) ==
    LET v == Validate(s.P, f.n, f.i, past)
        g == [f EXCEPT !.beta[f.i] = ToFloat(s.beta),
                       !.last = [row |-> s.P, i |-> f.i, threw |-> v # "ok"]]
    IN  IF v # "ok" THEN [g EXCEPT !.pc = "thrown", !.err = ErrorText(v)]
        ELSE [g EXCEPT !.pc = "row", !.P[f.i] = s.P, !.i = f.i + 1]

\* tsne.cc:130-136
DPEnter ==
    /\ dp.pc = "enter"
    /\ dp' = IF ~IsSquare(dp.D)
             THEN [dp EXCEPT !.pc = "thrown", !.err = "D is not square"]
             ELSE EnterLoop(dp)
    /\ UNCHANGED <<bs, vd, fo, ts, op>>

\* tsne.cc:140-147: the call of binary_search_perplexity on row i
DPCallSearch ==
    /\ dp.pc = "row" /\ dp.i < dp.n
    /\ bs' = NewSearch(dp.D.rows[dp.i], dp.perplexity, dp.i)
    /\ dp' = [dp EXCEPT !.pc = "search", !.calibrated = dp.calibrated + 1]
    /\ UNCHANGED <<vd, fo, ts, op>>

\* tsne.cc:146-154
DPValidate ==
    /\ dp.pc = "search" /\ bs.pc = "done"
    /\ \E past \in BOOLEAN : dp' = StoreRow(dp, bs, past)
    /\ bs' = Idle
    /\ UNCHANGED <<vd, fo, ts, op>>

\* tsne.cc:157-159
DPReturn ==
    /\ dp.pc = "row" /\ dp.i = dp.n
    /\ dp' = [dp EXCEPT !.pc = "returned"]
    /\ UNCHANGED <<bs, vd, fo, ts, op>>

NewTsne(probs, num_dims) ==
    [pc |-> "enter", probs |-> probs, num_dims |-> num_dims, Y |-> <<>>, err |-> ""]

\* tsne.cc:162-174
Tsne ==
    /\ ts.pc = "enter"
    /\ ts' = IF ~IsSquare(ts.probs)
             THEN [ts EXCEPT !.pc = "thrown", !.err = "probabilities were the wrong shape"]
             ELSE [ts EXCEPT !.pc = "returned",
                     !.Y = [a \in Idx(ts.probs.shape[1]) |-> [b \in Idx(ts.num_dims) |-> 0]]]
    /\ UNCHANGED <<bs, vd, dp, fo, op>>

\* one matrix is handed to distances_to_probabilities and to tsne
InitBuild ==
    /\ \E M \in InputMatrices : \E T \in 1 .. MaxPerp :
         /\ dp = NewBuild(M, T)
         /\ ts = NewTsne(M, 2)
    /\ bs = Idle /\ vd = Idle /\ fo = Idle /\ op = Idle

NextBuild ==
    \/ DPEnter \/ DPCallSearch \/ BSCall \/ BSIterate \/ BSReturn
    \/ DPValidate \/ DPReturn \/ Tsne

SpecBuild == InitBuild /\ [][NextBuild]_vars

\* ------------------- distances_to_probabilities, one task per point

\* tsne.cc:86-122 run to its return, on a row whose evaluations are exact
RECURSIVE RunSearch(_)
RunSearch(s) ==
    IF s.pc = "call"
    THEN RunSearch(FirstEval(s, CHOOSE r \in perplexity_and_prob(s.Di, s.beta, s.i) : TRUE))
    ELSE IF LoopGuard(s)
    THEN RunSearch(Iterate(s, CHOOSE r \in LoopEvals(s, SearchUpdate(s)) : TRUE))
    ELSE [s EXCEPT !.pc = "done"]

binary_search_perplexity(Di, required_perplexity, i) ==
    RunSearch(NewSearch(Di, required_perplexity, i))

\* tsne.cc:140-155 in the order 0 .. n-1, every row accepted: P and beta
SequentialResult(D, perplexity) ==
    LET n == D.shape[1]
        r == [a \in Idx(n) |-> binary_search_perplexity(D.rows[a], perplexity, a)]
    IN  [P |-> [a \in Idx(n) |-> r[a].P],
         beta |-> [a \in Idx(n) |-> ToFloat(r[a].beta)]]

\* the frame after tsne.cc:130-136 with one search frame per point; stored
\* is the set of rows copied into P and order the order they were copied in
\* (history); seq is what the loop of tsne.cc:140-155 gives (history)
NewFanOut(D, perplexity) ==
    LET f == EnterLoop(NewBuild(D, perplexity))
    IN  [pc |-> "tasks", D |-> D, perplexity |-> perplexity, n |-> f.n, i |-> 0,
         P |-> f.P, beta |-> f.beta, err |-> "", calibrated |-> f.n,
         last |-> f.last,
         task |-> [a \in Idx(f.n) |-> NewSearch(D.rows[a], perplexity, a)],
         stored |-> {}, order |-> <<>>,
         seq |-> SequentialResult(D, perplexity)]

\* tsne.cc:99 in task a
FOCall(a) ==
    /\ fo.pc = "tasks" /\ a < fo.n /\ fo.task[a].pc = "call"
    /\ \E r \in perplexity_and_prob(fo.task[a].Di, fo.task[a].beta, a) :
         fo' = [fo EXCEPT !.task[a] = FirstEval(fo.task[a], r)]
    /\ UNCHANGED <<bs, vd, dp, ts, op>>

\* tsne.cc:101-119 in task a
FOIterate(a) ==
    /\ fo.pc = "tasks" /\ a < fo.n /\ fo.task[a].pc = "loop" /\ LoopGuard(fo.task[a])
    /\ \E r \in LoopEvals(fo.task[a], SearchUpdate(fo.task[a])) :
         fo' = [fo EXCEPT !.task[a] = Iterate(fo.task[a], r)]
    /\ UNCHANGED <<bs, vd, dp, ts, op>>

\* tsne.cc:121 in task a
FOReturn(a) ==
    /\ fo.pc = "tasks" /\ a < fo.n /\ fo.task[a].pc = "loop" /\ ~LoopGuard(fo.task[a])
    /\ fo' = [fo EXCEPT !.task[a].pc = "done"]
    /\ UNCHANGED <<bs, vd, dp, ts, op>>

\* tsne.cc:146-154 for the row of task a
FOStore(a) ==
    /\ fo.pc = "tasks" /\ a < fo.n /\ fo.task[a].pc = "done" /\ a \notin fo.stored
    /\ \E past \in BOOLEAN :
         LET g == StoreRow([fo EXCEPT !.i = a], fo.task[a], past)
         IN  fo' = IF g.pc = "thrown" THEN g
                   ELSE [g EXCEPT !.pc = "tasks", !.stored = fo.stored \cup {a},
                                  !.order = Append(fo.order, a)]
    /\ UNCHANGED <<bs, vd, dp, ts, op>>

\* the join, then tsne.cc:157-159
FOJoin ==
    /\ fo.pc = "tasks" /\ fo.stored = Idx(fo.n)
    /\ fo' = [fo EXCEPT !.pc = "returned"]
    /\ UNCHANGED <<bs, vd, dp, ts, op>>

InitFanOut ==
    /\ \E n \in 1 .. MaxTasks : \E M \in ExactMatrices(n) : \E T \in 1 .. MaxPerp :
         fo = NewFanOut(M, T)
    /\ bs = Idle /\ vd = Idle /\ dp = Idle /\ ts = Idle /\ op = Idle

NextFanOut ==
    \/ \E a \in Idx(MaxTasks) : FOCall(a)
    \/ \E a \in Idx(MaxTasks) : FOIterate(a)
    \/ \E a \in Idx(MaxTasks) : FOReturn(a)
    \/ \E a \in Idx(MaxTasks) : FOStore(a)
    \/ FOJoin

SpecFanOut == InitFanOut /\ [][NextFanOut]_vars

\* --------------------------------------------------- vectors_to_distances

\* floats: a number within the float range, an infinity or a NaN
FNum(v) == [c |-> "num", v |-> v]
FInf(sign) == [c |-> "inf", v |-> sign]
FNaN == [c |-> "nan", v |-> 0]

Sign(v) == IF v < 0 THEN -1 ELSE IF v > 0 THEN 1 ELSE 0

\* the value v rounded to a float
Float(v) == IF v > FltMax THEN FInf(1) ELSE IF v < -FltMax THEN FInf(-1) ELSE FNum(v)

FAdd(a, b) ==
    IF a.c = "nan" \/ b.c = "nan" THEN FNaN
    ELSE IF a.c = "inf" /\ b.c = "inf" THEN (IF a.v = b.v THEN a ELSE FNaN)
    ELSE IF a.c = "inf" THEN a
    ELSE IF b.c = "inf" THEN b
    ELSE Float(a.v + b.v)

FMul(a, b) ==
    IF a.c = "nan" \/ b.c = "nan" THEN FNaN
    ELSE IF a.c = "inf" \/ b.c = "inf"
    THEN (IF Sign(a.v) * Sign(b.v) = 0 THEN FNaN ELSE FInf(Sign(a.v) * Sign(b.v)))
    ELSE Float(a.v * b.v)

FSub(a, b) == FAdd(a, FMul(FNum(-1), b))

\* a == b on floats: a NaN equals nothing
FEq(a, b) == a.c # "nan" /\ b.c # "nan" /\ a = b

RECURSIVE SumTo(_, _)
SumTo(f, k) == IF k < 0 THEN 0 ELSE f[k] + SumTo(f, k - 1)

\* SIMD::vec_dotprod_dp(x, y, d): the products summed in double precision,
\* the result stored in a float
vec_dotprod_dp(x, y, d) == Float(SumTo([k \in Idx(d) |-> x[k] * y[k]], d - 1))

\* multiply_transposed(X, X): the n x n matrix of the rows' inner products
multiply_transposed(X, n, d) ==
    [a \in Idx(n) |-> [b \in Idx(n) |->
        Float(SumTo([k \in Idx(d) |-> X[a][k] * X[b][k]], d - 1))]]

\* tsne.cc:68: sum_X[i] + sum_X[j] - 2 * XXT[i][j]
DistanceFormula(sum_X, XXT, i, j) ==
    FSub(FAdd(sum_X[i], sum_X[j]), FMul(FNum(2), XXT[i][j]))

\* the first j of the inner loop of row i (tsne.cc:67)
FirstColumn(i) == i

\* tsne.cc:55-65: the norms, the inner products and D, n x n zeros
NewDistances(X, n, d) ==
    [pc |-> "fill", X |-> X, n |-> n, d |-> d,
     sum_X |-> [a \in Idx(n) |-> vec_dotprod_dp(X[a], X[a], d)],
     XXT |-> multiply_transposed(X, n, d),
     D |-> [a \in Idx(n) |-> [b \in Idx(n) |-> FNum(0)]],
     i |-> 0, j |-> FirstColumn(0)]

\* tsne.cc:66-70: one pass of the inner loop, or the step to the next row
VDFill ==
    /\ vd.pc = "fill" /\ vd.i < vd.n /\ vd.j < vd.n
    /\ LET v == DistanceFormula(vd.sum_X, vd.XXT, vd.i, vd.j)
       IN  vd' = [vd EXCEPT !.D[vd.i][vd.j] = v, !.D[vd.j][vd.i] = v,
                            !.j = vd.j + 1]
    /\ UNCHANGED <<bs, dp, fo, ts, op>>

VDNextRow ==
    /\ vd.pc = "fill" /\ vd.i < vd.n /\ vd.j = vd.n
    /\ vd' = [vd EXCEPT !.i = vd.i + 1, !.j = FirstColumn(vd.i + 1)]
    /\ UNCHANGED <<bs, dp, fo, ts, op>>

\* tsne.cc:72
VDReturn ==
    /\ vd.pc = "fill" /\ vd.i = vd.n
    /\ vd' = [vd EXCEPT !.pc = "returned"]
    /\ UNCHANGED <<bs, dp, fo, ts, op>>

Points(n, d) == [Idx(n) -> [Idx(d) -> (-1) .. MaxCoord]]

InitDistances ==
    /\ \E n \in 1 .. MaxN : \E d \in 1 .. MaxDim : \E X \in Points(n, d) :
         vd = NewDistances(X, n, d)
    /\ bs = Idle /\ dp = Idle /\ fo = Idle /\ ts = Idle /\ op = Idle

NextDistances == VDFill \/ VDNextRow \/ VDReturn

SpecDistances == InitDistances /\ [][NextDistances]_vars

\* ------------------------------------------- the reference optimiser loop

\* tsne.cc:182, 196 and 232, 231, 215, 226
max_iter == 1000
Exaggeration == 4
Cutoff == 100
MomentumSwitch == 20
CostEvery == 10

\* 1e-12 in the unit of the entries of P
Floor == 4

MaxOf2(a, b) == IF a > b THEN a ELSE b

\* tsne.cc:196-197 on one entry: P = P * 4; P = maximum(P, 1e-12)
Exaggerate(p) == MaxOf2(p * Exaggeration, Floor)

\* a test that keeps dividing from the cutoff on
StopLyingFrom(iter) == iter >= Cutoff

\* tsne.cc:231: is this the iteration that ends the exaggeration?
StopLying(iter) == iter = Cutoff

\* tsne.cc:193-197: P as the loop starts.  P0 is that P (history), scaled up
\* and scaled down count the multiplications and the divisions (history)
NewOptimiser(P) ==
    [pc |-> "loop", iter |-> 0,
     P |-> [e \in DOMAIN P |-> Exaggerate(P[e])],
     P0 |-> [e \in DOMAIN P |-> Exaggerate(P[e])],
     used |-> <<>>, momentum |-> 0, cost_reported |-> FALSE,
     scaled_up |-> 1, scaled_down |-> 0]

\* tsne.cc:200-232: one iteration.  used is the P of PQ = P - Q, momentum is
\* in tenths; Y, its gains and Q do not bear on P and are left out
OptIterate ==
    /\ op.pc = "loop" /\ op.iter < max_iter
    /\ op' = [op EXCEPT
                !.used = op.P,
                !.momentum = IF op.iter < MomentumSwitch THEN 5 ELSE 8,
                !.cost_reported = ((op.iter + 1) % CostEvery = 0),
                !.P = IF StopLying(op.iter)
                      THEN [e \in DOMAIN op.P |-> op.P[e] \div Exaggeration]
                      ELSE op.P,
                !.scaled_down = IF StopLying(op.iter) THEN op.scaled_down + 1
                                ELSE op.scaled_down,
                !.iter = op.iter + 1]
    /\ UNCHANGED <<bs, vd, dp, fo, ts>>

\* tsne.cc:235
OptReturn ==
    /\ op.pc = "loop" /\ op.iter = max_iter
    /\ op' = [op EXCEPT !.pc = "returned"]
    /\ UNCHANGED <<bs, vd, dp, fo, ts>>

InitOptimiser ==
    /\ \E P \in [Idx(2) -> 0 .. MaxP] : op = NewOptimiser(P)
    /\ bs = Idle /\ vd = Idle /\ dp = Idle /\ fo = Idle /\ ts = Idle

NextOptimiser == OptIterate \/ OptReturn

SpecOptimiser == InitOptimiser /\ [][NextOptimiser]_vars

\* ------------------------------------------------- claims on the search

Returned == bs.pc = "done"
Evaluated == bs.pc \in {"loop", "done"}
Converged(s) == ~NotConverged(s.log_perplexity, s.required_perplexity)

\* C1: the row binary_search_perplexity returns has its self-entry P[i]
\* exactly 0, whatever number of iterations ran.
C1_SelfEntryZero == Returned => bs.P[bs.i] = PZero

\* C2: after an iteration that leaves betamin and betamax both finite, beta
\* lies strictly inside the bracket: betamin < beta < betamax.
C2_BetaInsideBracket ==
    (Evaluated /\ bs.iter >= 1 /\ isfinite(bs.betamin) /\ isfinite(bs.betamax))
        => (Lt(bs.betamin, bs.beta) /\ Lt(bs.beta, bs.betamax))

\* C3: across the iterations of one call betamin never decreases and betamax
\* never increases, whatever the comparisons of the log-perplexity with the
\* target turn out to be.
C3_BoundsMonotone ==
    [][Le(bs.betamin, bs'.betamin) /\ Le(bs'.betamax, bs.betamax)]_vars

C3_Witness ==
    /\ Returned /\ bs.iter >= 4
    /\ Lt(One, bs.betamin) /\ Lt(bs.betamin, bs.betamax)
    /\ Lt(bs.betamax, Fin({3}))

\* C4: the search always terminates and returns a row and a beta: at most 50
\* iterations run, a step can always be taken until the return, no iteration
\* follows an evaluation that met the tolerance, and a call that meets it at
\* the start returns beta = 1 without iterating.
C4_Terminates ==
    /\ bs.iter <= MaxIter
    /\ (bs.pc \in {"call", "loop"}) => ENABLED Next
    /\ (bs.pc = "loop" /\ Converged(bs)) => ~ENABLED BSIterate
    /\ (Evaluated /\ bs.best # HNaN) => NotConverged(bs.best, bs.required_perplexity)
    /\ (Evaluated /\ bs.iter = 0) => bs.beta = One
    /\ Returned => (bs.iter = MaxIter \/ ~NotConverged(bs.log_perplexity, bs.required_perplexity))
    /\ Returned => (DOMAIN bs.P = DOMAIN bs.Di /\ isfinite(bs.beta))

C4_Witness ==
    /\ Returned /\ bs.iter = MaxIter /\ ~Converged(bs)
    /\ bs.beta = Fin({MaxIter})

\* C5: when all 50 iterations run without meeting the tolerance, no beta
\* evaluated earlier in the search has a smaller residual than the one returned.
C5_ReturnsBest ==
    (Returned /\ bs.iter = MaxIter /\ ~Converged(bs) /\ bs.best # HNaN)
        => ~ResidualLess(bs.best, bs.log_perplexity, bs.required_perplexity)

\* ------------------------------ claims on distances_to_probabilities, tsne

\* C6: distances_to_probabilities raises exactly when the calibrated row does
\* not have n entries or its i-th (self) entry is non-zero; a row of n
\* entries whose i-th entry is 0 is accepted and copied into P[i].
C6_ValidatesSelfEntry ==
    (dp.pc # "idle" /\ dp.last.i # -1) =>
        LET row == dp.last.row
            bad == Cardinality(DOMAIN row) # dp.n \/ row[dp.last.i] # PZero
        IN  /\ dp.last.threw <=> bad
            /\ ~dp.last.threw => dp.P[dp.last.i] = row

\* C7: on a matrix that is not square distances_to_probabilities and tsne
\* raise the shape error before anything else: no row is calibrated, no P and
\* no Y is produced; a square matrix raises no shape error.
C7_ShapeErrorFirst ==
    /\ dp.pc # "idle" =>
         IF dp.D.shape[1] = dp.D.shape[2] THEN dp.err # "D is not square"
         ELSE /\ dp.pc \in {"enter", "thrown"}
              /\ dp.pc = "enter" => ENABLED DPEnter
              /\ dp.pc = "thrown" => dp.err = "D is not square"
              /\ dp.calibrated = 0 /\ dp.P = <<>> /\ bs = Idle
    /\ ts.pc # "idle" =>
         IF ts.probs.shape[1] = ts.probs.shape[2] THEN ts.pc # "thrown"
         ELSE /\ ts.pc \in {"enter", "thrown"}
              /\ ts.pc = "enter" => ENABLED Tsne
              /\ ts.Y = <<>>

C7_Witness ==
    /\ dp.pc = "thrown" /\ dp.err = "D is not square"
    /\ ts.pc = "thrown" /\ ts.err = "probabilities were the wrong shape"

C8_SymmetricZeroDiagonal ==
    vd.pc = "returned" =>
        /\ \A a, b \in Idx(vd.n) : FEq(vd.D[a][b], vd.D[b][a])
        /\ \A a \in Idx(vd.n) : FEq(vd.D[a][a], FNum(0))

\* --------------------------------------------- claims on the optimiser loop

====
